---- MODULE Spec2Model ----
(***************************************************************************)
(* Model of the hybrid similarity search engine of near-search:            *)
(*   src/src/vector_store.py  VectorStore, EnhancedSimilarityCalculator    *)
(*   src/src/similarity.py    SimilarityCalculator                         *)
(*   src/src/matcher.py       ImageMatcher                                 *)
(*                                                                         *)
(* Numbers.  A float is modelled in fixed point.  A vector is a sequence   *)
(* of integers; a normalised vector has L2 norm Unit (Unit stands for 1.0).*)
(* An inner product of two normalised vectors is an integer in             *)
(* -Unit*Unit .. Unit*Unit (Unit*Unit stands for the score 1.0).  The      *)
(* result of dividing by a zero norm is NaN, kept as a flag on the vector. *)
(***************************************************************************)
EXTENDS Integers, Sequences, FiniteSets, TLC

(***************************************************************************)
(* Bounds of the model.                                                    *)
(***************************************************************************)
MaxSlots == 2
MaxDiskSlots == 2
MaxBatch == 2
MaxTopK == 2

(***************************************************************************)
(* Program constants, scaled to the model.                                 *)
(***************************************************************************)
embedding_dim == 2
Unit == 5
OverSample == 2

One == Unit * Unit
NegInf == 0 - (One + 1)

Ids == {"desc_001", "desc_002"}
GoodVecs == {<<5, 0>>, <<0, 10>>}
ZeroVec == <<0, 0>>
ShortVec == <<5>>
Queries == {<<10, 0>>, <<0, 5>>, <<3, 4>>, <<0, 0>>}
TopKs == 1..MaxTopK
Thresholds == {0 - One, 0, 20, One}
NewTexts == {"edited"}

TextOf(id) == IF id = "desc_001" THEN "sunset" ELSE "cat"

(***************************************************************************)
(* Sequences helpers.                                                      *)
(***************************************************************************)
Range(s) == {s[i] : i \in 1..Len(s)}

SeqsUpTo(S, n) == UNION {[1..k -> S] : k \in 1..n}

RECURSIVE SumSq(_)
SumSq(v) == IF v = <<>> THEN 0 ELSE Head(v) * Head(v) + SumSq(Tail(v))

RECURSIVE Dot(_, _)
Dot(a, b) == IF a = <<>> \/ b = <<>> THEN 0 ELSE Head(a) * Head(b) + Dot(Tail(a), Tail(b))

Take(s, n) == IF Len(s) <= n THEN s ELSE SubSeq(s, 1, n)

Min2(a, b) == IF a <= b THEN a ELSE b

(***************************************************************************)
(* np.linalg.norm and the division by it (vector_store.py:88, :122).       *)
(* A zero norm makes every component 0/0 = NaN; numpy raises nothing.      *)
(***************************************************************************)
RECURSIVE Sqrt(_, _)
Sqrt(n, r) == IF r * r >= n THEN r ELSE Sqrt(n, r + 1)

\* The norms of the vectors the model uses, computed once.
NormTable == [v \in GoodVecs \cup {ZeroVec, ShortVec} \cup Queries |-> Sqrt(SumSq(v), 0)]

L2Norm(v) == NormTable[v]

Divide(v, norm) ==
  IF norm = 0
  THEN [nan |-> TRUE, c |-> [i \in 1..Len(v) |-> 0]]
  ELSE [nan |-> FALSE, c |-> [i \in 1..Len(v) |-> (v[i] * Unit) \div norm]]

Normalize(v) == Divide(v, L2Norm(v))

Width(nv) == Len(nv.c)

IsUnit(nv) == ~nv.nan /\ SumSq(nv.c) = One

(***************************************************************************)
(* State.                                                                  *)
(*   store      the VectorStore instance: faiss_index (the rows held by    *)
(*              the IndexFlatIP), vectors, metadata, id_to_index           *)
(*   disk       the three artifacts of store_dir; each is "missing",       *)
(*              "unreadable" or its content                                *)
(*   tomb       ids whose delete returned True with no add of the id since *)
(*   ret        the last operation and its outcome                         *)
(*   matcher    the ImageMatcher instance: descriptions, image_mappings,   *)
(*              similarity_calculator, use_vector_store                    *)
(*   descriptions_json   the corpus file data/descriptions.json           *)
(*   mappings_json       the mappings file data/mappings.json             *)
(*   running    the request handlers in flight, each with the operation it *)
(*              serves and its position in it                              *)
(***************************************************************************)
VARIABLES store, disk, tomb, ret, matcher, descriptions_json, mappings_json, running

vars == <<store, disk, tomb, ret, matcher, descriptions_json, mappings_json, running>>

\* The controller, its two files and the handlers in flight, which the
\* store's own operations leave alone.
engine == <<matcher, descriptions_json, mappings_json, running>>

EmptyMap == [i \in {} |-> 0]

\* VectorStore.__init__ before load_store, and _initialize_empty_store.
EmptyStore ==
  [faiss_index |-> <<>>, vectors |-> <<>>, metadata |-> <<>>, id_to_index |-> EmptyMap]

\* A request handler: the operation it serves, its position in it, and its
\* local variables (the id asked for, the slot found for it, the result
\* being built).
Idle == [op |-> "idle", pc |-> 0, id |-> "", index |-> 0, work |-> EmptyStore]

MaxHandlers == 2

Handlers == 1..MaxHandlers

NoHandlers == [h \in Handlers |-> Idle]

\* A file of store_dir: state is "ok", "missing" or "unreadable".
NoFile == [state |-> "missing", data |-> <<>>]

File(data) == [state |-> "ok", data |-> data]

Files == {"index_file", "vectors_file", "metadata_file"}

EmptyDisk == [index_file |-> NoFile, vectors_file |-> NoFile, metadata_file |-> NoFile]

Deleted(meta) == meta.deleted

\* id_to_index[k] = v, a dict assignment.
MapPut(m, k, v) == [x \in (DOMAIN m) \cup {k} |-> IF x = k THEN v ELSE m[x]]

(***************************************************************************)
(* VectorStore.add_vectors.  The ValueError and the assertion of           *)
(* faiss_index.add (row width = index dimension) come before any           *)
(* assignment.                                                             *)
(***************************************************************************)
NewMeta(m, index) ==
  [id |-> m.id, index |-> index, text |-> m.text, keywords |-> m.keywords,
   created_at |-> TRUE, updated_at |-> FALSE, deleted |-> FALSE,
   deleted_at |-> FALSE]

RECURSIVE AppendMetas(_, _, _)
AppendMetas(s, metas, start) ==
  IF metas = <<>> THEN s
  ELSE AppendMetas(
         [s EXCEPT !.metadata = Append(@, NewMeta(Head(metas), start)),
                   !.id_to_index = MapPut(@, Head(metas).id, start)],
         Tail(metas), start + 1)

\* add_vectors without its guards: rows and records are appended as given.
AddVectorsUnguarded(s, vecs, metas) ==
  LET normalized == [i \in 1..Len(vecs) |-> Normalize(vecs[i])]
      s1 == [s EXCEPT !.faiss_index = @ \o normalized, !.vectors = @ \o normalized]
  IN [raised |-> FALSE,
      store |-> AppendMetas(s1, metas, Len(s.metadata)),
      indices |-> [i \in 1..Len(metas) |-> Len(s.metadata) + i - 1]]

AddVectors(s, vecs, metas) ==
  IF Len(vecs) # Len(metas)
  THEN [raised |-> TRUE, store |-> s, indices |-> <<>>]
  ELSE LET normalized == [i \in 1..Len(vecs) |-> Normalize(vecs[i])]
       IN IF \E i \in 1..Len(vecs) : Width(normalized[i]) # embedding_dim
          THEN [raised |-> TRUE, store |-> s, indices |-> <<>>]
          ELSE LET s1 == [s EXCEPT !.faiss_index = @ \o normalized,
                                   !.vectors = @ \o normalized]
                   start == Len(s.metadata)
               IN [raised |-> FALSE,
                   store |-> AppendMetas(s1, metas, start),
                   indices |-> [i \in 1..Len(metas) |-> start + i - 1]]

(***************************************************************************)
(* faiss IndexFlatIP.search(q, k): the k rows of largest inner product, in *)
(* descending score; a NaN product never enters the result heap, and the   *)
(* result is padded with label -1.  The library fixes no order for equal  *)
(* scores: ties is the order of the build in use, ascending or descending  *)
(* row number.                                                             *)
(***************************************************************************)
IP(a, b) == Dot(a.c, b.c)

FaissTies == {"asc", "desc"}

Before(index, qn, i, j, ties) ==
  \/ IP(index[i], qn) > IP(index[j], qn)
  \/ /\ IP(index[i], qn) = IP(index[j], qn)
     /\ IF ties = "asc" THEN i < j ELSE i > j

FaissSearch(index, qn, k, ties) ==
  LET cands == {i \in 1..Len(index) : ~index[i].nan /\ ~qn.nan}
      place(i) == 1 + Cardinality({j \in cands : Before(index, qn, j, i, ties)})
      at(p) == CHOOSE i \in cands : place(i) = p
  IN [p \in 1..k |->
        IF p <= Cardinality(cands)
        THEN [idx |-> at(p) - 1, score |-> IP(index[at(p)], qn)]
        ELSE [idx |-> 0 - 1, score |-> NegInf]]

\* list.sort(key=score, reverse=True): stable.
RECURSIVE InsertByScore(_, _)
InsertByScore(sorted, x) ==
  IF sorted = <<>> THEN <<x>>
  ELSE IF Head(sorted).score >= x.score
       THEN <<Head(sorted)>> \o InsertByScore(Tail(sorted), x)
       ELSE <<x>> \o sorted

RECURSIVE SortByScore(_)
SortByScore(s) ==
  IF s = <<>> THEN <<>>
  ELSE InsertByScore(SortByScore(SubSeq(s, 1, Len(s) - 1)), s[Len(s)])

\* The filter of search_similar with score > threshold.
RECURSIVE KeepHitsStrict(_, _, _)
KeepHitsStrict(cands, metadata, threshold) ==
  IF cands = <<>> THEN <<>>
  ELSE LET c == Head(cands)
           rest == KeepHitsStrict(Tail(cands), metadata, threshold)
       IN IF c.idx >= 0 /\ c.score > threshold /\ c.idx < Len(metadata)
          THEN <<[meta |-> metadata[c.idx + 1], score |-> c.score]>> \o rest
          ELSE rest

RECURSIVE KeepHits(_, _, _)
KeepHits(cands, metadata, threshold) ==
  IF cands = <<>> THEN <<>>
  ELSE LET c == Head(cands)
           rest == KeepHits(Tail(cands), metadata, threshold)
       IN IF c.idx >= 0 /\ c.score >= threshold /\ c.idx < Len(metadata)
          THEN <<[meta |-> metadata[c.idx + 1], score |-> c.score]>> \o rest
          ELSE rest

(***************************************************************************)
(* VectorStore.search_similar.                                             *)
(***************************************************************************)
SearchSimilar(s, q, top_k, threshold, ties) ==
  IF Len(s.faiss_index) = 0
  THEN [raised |-> FALSE, res |-> <<>>]
  ELSE LET qn == Normalize(q)
       IN IF Width(qn) # embedding_dim
          THEN [raised |-> TRUE, res |-> <<>>]
          ELSE LET k == Min2(top_k * OverSample, Len(s.faiss_index))
                   cands == FaissSearch(s.faiss_index, qn, k, ties)
                   results == KeepHits(cands, s.metadata, threshold)
               IN [raised |-> FALSE, res |-> Take(SortByScore(results), top_k)]

(***************************************************************************)
(* get_vector_by_id, update_metadata, delete_vector, get_stats.            *)
(***************************************************************************)
GetVectorById(s, id) ==
  IF id \in DOMAIN s.id_to_index /\ s.id_to_index[id] < Len(s.vectors)
  THEN [found |-> TRUE,
        vector |-> <<s.vectors[s.id_to_index[id] + 1]>>,
        meta |-> <<s.metadata[s.id_to_index[id] + 1]>>]
  ELSE [found |-> FALSE, vector |-> <<>>, meta |-> <<>>]

UpdateMetadata(s, id, text) ==
  IF id \in DOMAIN s.id_to_index /\ s.id_to_index[id] < Len(s.metadata)
  THEN [ok |-> TRUE,
        store |-> [s EXCEPT !.metadata[s.id_to_index[id] + 1] =
                     [id |-> id, index |-> s.id_to_index[id], text |-> text,
                      keywords |-> <<>>, created_at |-> FALSE, updated_at |-> TRUE,
                      deleted |-> FALSE, deleted_at |-> FALSE]]]
  ELSE [ok |-> FALSE, store |-> s]

\* delete_vector as a physical delete: the slot leaves the metadata.
DeleteVectorPhysical(s, id) ==
  IF id \in DOMAIN s.id_to_index /\ s.id_to_index[id] < Len(s.metadata)
  THEN [ok |-> TRUE,
        store |-> [s EXCEPT !.metadata =
                     [j \in 1..(Len(s.metadata) - 1) |->
                        IF j < s.id_to_index[id] + 1
                        THEN s.metadata[j] ELSE s.metadata[j + 1]]]]
  ELSE [ok |-> FALSE, store |-> s]

\* delete_vector that marks every record carrying the id and reports success
\* whether or not the id is in the map.
DeleteVectorByScan(s, id) ==
  [ok |-> TRUE,
   store |-> [s EXCEPT !.metadata =
                [i \in 1..Len(s.metadata) |->
                   IF s.metadata[i].id = id
                   THEN [s.metadata[i] EXCEPT !.deleted = TRUE, !.deleted_at = TRUE]
                   ELSE s.metadata[i]]]]

DeleteVector(s, id) ==
  IF id \in DOMAIN s.id_to_index /\ s.id_to_index[id] < Len(s.metadata)
  THEN [ok |-> TRUE,
        store |-> [s EXCEPT !.metadata[s.id_to_index[id] + 1].deleted = TRUE,
                            !.metadata[s.id_to_index[id] + 1].deleted_at = TRUE]]
  ELSE [ok |-> FALSE, store |-> s]

\* get_stats that counts every record as active.
GetStatsCountsAll(s) ==
  [total_vectors |-> Len(s.metadata),
   active_vectors |-> Len(s.metadata),
   deleted_vectors |-> 0,
   embedding_dimension |-> embedding_dim]

GetStats(s) ==
  LET active_count == Cardinality({i \in 1..Len(s.metadata) : ~Deleted(s.metadata[i])})
  IN [total_vectors |-> Len(s.metadata),
      active_vectors |-> active_count,
      deleted_vectors |-> Len(s.metadata) - active_count,
      embedding_dimension |-> embedding_dim]

(***************************************************************************)
(* VectorStore.rebuild_index.  meta['index'] is assigned in place while    *)
(* the records are collected; self.vectors[i] raises IndexError when the   *)
(* matrix has fewer rows than there are records.                           *)
(***************************************************************************)
Survivors(s) == {i \in 1..Len(s.metadata) : ~Deleted(s.metadata[i])}

NewIndex(s, i) == Cardinality({j \in Survivors(s) : j < i})

NthSurvivor(s, n) == CHOOSE i \in Survivors(s) : NewIndex(s, i) = n - 1

RECURSIVE MapFromMetas(_, _)
MapFromMetas(metas, n) ==
  IF n = 0 THEN EmptyMap
  ELSE MapPut(MapFromMetas(metas, n - 1), metas[n].id, n - 1)

\* rebuild_index that leaves self.id_to_index as it was.
RebuildIndexKeepsMap(s) ==
  LET n == Cardinality(Survivors(s))
      active_vectors == [k \in 1..n |-> s.vectors[NthSurvivor(s, k)]]
      active_metadata ==
        [k \in 1..n |-> [s.metadata[NthSurvivor(s, k)] EXCEPT !.index = k - 1]]
  IN [raised |-> FALSE,
      store |-> [faiss_index |-> active_vectors, vectors |-> active_vectors,
                 metadata |-> active_metadata, id_to_index |-> s.id_to_index]]

RebuildIndex(s) ==
  LET alive == Survivors(s)
      n == Cardinality(alive)
      bad == {i \in alive : i > Len(s.vectors)}
  IN IF bad # {}
     THEN LET stop == CHOOSE i \in bad : \A j \in bad : i <= j
          IN [raised |-> TRUE,
              store |-> [s EXCEPT !.metadata =
                           [i \in 1..Len(s.metadata) |->
                              IF i \in alive /\ i < stop
                              THEN [s.metadata[i] EXCEPT !.index = NewIndex(s, i)]
                              ELSE s.metadata[i]]]]
     ELSE IF n > 0
          THEN LET active_vectors == [k \in 1..n |-> s.vectors[NthSurvivor(s, k)]]
                   active_metadata ==
                     [k \in 1..n |-> [s.metadata[NthSurvivor(s, k)] EXCEPT !.index = k - 1]]
               IN [raised |-> FALSE,
                   store |-> [faiss_index |-> active_vectors,
                              vectors |-> active_vectors,
                              metadata |-> active_metadata,
                              id_to_index |-> MapFromMetas(active_metadata, n)]]
          ELSE [raised |-> FALSE, store |-> EmptyStore]

(***************************************************************************)
(* VectorStore.save_store and load_store.                                  *)
(***************************************************************************)
SaveStore(s, d) ==
  [index_file |-> File(s.faiss_index),
   metadata_file |-> File(s.metadata),
   vectors_file |-> IF Len(s.vectors) > 0 THEN File(s.vectors) ELSE d.vectors_file]

LoadStore(d) ==
  IF \E f \in Files : d[f].state = "unreadable"
  THEN EmptyStore
  ELSE [faiss_index |-> IF d.index_file.state = "ok" THEN d.index_file.data ELSE <<>>,
        metadata |-> IF d.metadata_file.state = "ok" THEN d.metadata_file.data ELSE <<>>,
        id_to_index |-> IF d.metadata_file.state = "ok"
                        THEN MapFromMetas(d.metadata_file.data, Len(d.metadata_file.data))
                        ELSE EmptyMap,
        vectors |-> IF d.vectors_file.state = "ok" THEN d.vectors_file.data ELSE <<>>]

(***************************************************************************)
(* The calculators.  model says whether SentenceTransformer(...) loads;    *)
(* a calculator field is TRUE when the attribute holds an object and FALSE *)
(* when it is None.  The VectorStore of the enhanced calculator is the     *)
(* variable store.                                                         *)
(***************************************************************************)
Methods == {"tfidf", "sentence_transformer"}

\* EnhancedSimilarityCalculator.__init__
EnhancedSimilarityCalculator(method, model) ==
  IF method = "sentence_transformer" /\ model
  THEN [method |-> method, sentence_model |-> TRUE, vector_store |-> TRUE,
        vectorizer |-> FALSE]
  ELSE [method |-> "tfidf", sentence_model |-> FALSE, vector_store |-> FALSE,
        vectorizer |-> TRUE]

\* enhanced_calculator = None
NoEnhanced ==
  [method |-> "tfidf", sentence_model |-> FALSE, vector_store |-> FALSE,
   vectorizer |-> FALSE]

\* SimilarityCalculator.__init__
SimilarityCalculator(method, use_vector_store, model) ==
  LET enhanced == method = "sentence_transformer" /\ use_vector_store
      traditional == ~use_vector_store \/ method = "tfidf"
  IN [method |-> IF traditional /\ method = "sentence_transformer" /\ ~model
                 THEN "tfidf" ELSE method,
      use_vector_store |-> use_vector_store,
      vectorizer |-> traditional /\ (method = "tfidf" \/ ~model),
      sentence_model |-> traditional /\ method = "sentence_transformer" /\ model,
      has_enhanced |-> enhanced,
      enhanced_calculator |->
        IF enhanced THEN EnhancedSimilarityCalculator(method, model) ELSE NoEnhanced]

(***************************************************************************)
(* Operations on the store of the running process.                         *)
(***************************************************************************)
InMetas == {[id |-> i, text |-> TextOf(i), keywords |-> <<>>] : i \in Ids}

IdsOf(metas) == {metas[i].id : i \in 1..Len(metas)}

Op(name, out) == [op |-> name, out |-> out]

Init ==
  /\ store = EmptyStore
  /\ disk = EmptyDisk
  /\ tomb = {}
  /\ ret = Op("init", "ok")
  /\ matcher = [descriptions |-> <<>>, image_mappings |-> <<>>,
                similarity_calculator |-> SimilarityCalculator("tfidf", TRUE, TRUE),
                use_vector_store |-> TRUE]
  /\ descriptions_json = <<>>
  /\ mappings_json = <<>>
  /\ running = NoHandlers

\* The longest of the three sequences of the store; bounded by the model.
Rows(s) ==
  IF Len(s.metadata) >= Len(s.vectors) /\ Len(s.metadata) >= Len(s.faiss_index)
  THEN Len(s.metadata)
  ELSE IF Len(s.vectors) >= Len(s.faiss_index) THEN Len(s.vectors) ELSE Len(s.faiss_index)

DoAdd(vecs, metas, cap) ==
  \E r \in {AddVectors(store, vecs, metas)} :
     /\ Rows(store) + Len(metas) <= cap \/ r.raised
     /\ store' = r.store
     /\ tomb' = IF r.raised THEN tomb ELSE tomb \ IdsOf(metas)
     /\ ret' = Op("add", IF r.raised THEN "raised" ELSE "ok")
     /\ UNCHANGED <<disk, engine>>

\* The inputs of add: N vectors with N records; N vectors of another width;
\* N vectors with another number of records.
Batches(V) ==
  {[vecs |-> vs, metas |-> ms] :
     vs \in SeqsUpTo(V, MaxBatch), ms \in SeqsUpTo(InMetas, MaxBatch)}

AddInputs ==
  {b \in Batches(GoodVecs \cup {ZeroVec}) : Len(b.vecs) = Len(b.metas)}
  \cup {b \in Batches({ShortVec}) : Len(b.vecs) = Len(b.metas)}
  \cup {b \in Batches({<<5, 0>>}) : Len(b.vecs) # Len(b.metas)}

Add == \E b \in AddInputs : DoAdd(b.vecs, b.metas, MaxSlots)

Delete ==
  \E id \in Ids :
    \E r \in {DeleteVector(store, id)} :
       /\ store' = r.store
       /\ tomb' = IF r.ok THEN tomb \cup {id} ELSE tomb
       /\ ret' = Op("delete", IF r.ok THEN "true" ELSE "false")
       /\ UNCHANGED <<disk, engine>>

Update ==
  \E id \in Ids, text \in NewTexts :
    \E r \in {UpdateMetadata(store, id, text)} :
       /\ store' = r.store
       /\ ret' = Op("update", IF r.ok THEN "true" ELSE "false")
       /\ UNCHANGED <<disk, tomb, engine>>

Compact ==
  \E r \in {RebuildIndex(store)} :
     /\ store' = r.store
     /\ ret' = Op("compact", IF r.raised THEN "raised" ELSE "ok")
     /\ UNCHANGED <<disk, tomb, engine>>

Next == Add \/ Delete \/ Update \/ Compact

Spec == Init /\ [][Next]_vars

(***************************************************************************)
(* The store and its directory (DiskSpec): save_store, and a new           *)
(* VectorStore on the same directory, whose __init__ calls load_store.     *)
(* The rows added here are the embeddings of the records' texts.           *)
(***************************************************************************)
Encode(text) ==
  IF text = "sunset" THEN <<5, 0>> ELSE IF text = "dog" THEN <<3, 4>> ELSE <<0, 10>>

DiskAdd ==
  \E m \in InMetas : DoAdd(<<Encode(m.text)>>, <<m>>, MaxDiskSlots)

Save ==
  /\ disk' = SaveStore(store, disk)
  /\ ret' = Op("save", "true")
  /\ UNCHANGED <<store, tomb, engine>>

Load ==
  /\ store' = LoadStore(disk)
  /\ tomb' = {}
  /\ ret' = Op("load", "ok")
  /\ UNCHANGED <<disk, engine>>

DiskNext == DiskAdd \/ Delete \/ Update \/ Compact \/ Save \/ Load

DiskSpec == Init /\ [][DiskNext]_vars

(***************************************************************************)
(* The directory under faults (FaultSpec): a file of store_dir is removed  *)
(* or made unreadable between a save and a load.                           *)
(***************************************************************************)
RemoveFile ==
  \E f \in Files :
    /\ disk[f].state = "ok"
    /\ disk' = [disk EXCEPT ![f] = NoFile]
    /\ ret' = Op("remove", f)
    /\ UNCHANGED <<store, tomb, engine>>

CorruptFile ==
  \E f \in Files :
    /\ disk[f].state = "ok"
    /\ disk' = [disk EXCEPT ![f] = [state |-> "unreadable", data |-> <<>>]]
    /\ ret' = Op("corrupt", f)
    /\ UNCHANGED <<store, tomb, engine>>

FaultNext == DiskAdd \/ Delete \/ Compact \/ Save \/ Load \/ RemoveFile \/ CorruptFile

FaultSpec == Init /\ [][FaultNext]_vars

(***************************************************************************)
(* The store behind the service (ServeSpec).  Every route of main.py is an *)
(* async def whose body calls the matcher without awaiting: the event loop *)
(* of uvicorn runs a handler from its first line to its return before it   *)
(* takes the next request.  The operations are taken one assignment at a   *)
(* time, in the order of the code.                                         *)
(***************************************************************************)
MaxServeSlots == 2

Mutating == {"add", "delete", "update", "compact", "save"}

Reads == {"search", "get", "stats"}

Requests ==
  {[op |-> o, id |-> i] : o \in {"add", "delete", "update", "get"}, i \in Ids}
  \cup {[op |-> o, id |-> ""] : o \in {"compact", "save", "search", "stats"}}

\* Handlers handed to worker threads: a request starts whenever a worker is
\* free, whatever the other workers are in the middle of.
ThreadPoolFree(h) == running[h] = Idle

\* The event loop takes a request when no handler is in flight.
EventLoopFree(h) == \A g \in Handlers : running[g] = Idle

Dispatch(h) ==
  /\ EventLoopFree(h)
  /\ \E req \in Requests :
       /\ req.op = "add" => Rows(store) < MaxServeSlots
       /\ running' = [running EXCEPT ![h] = [Idle EXCEPT !.op = req.op, !.pc = 1,
                                                        !.id = req.id]]
  /\ UNCHANGED <<store, disk, tomb, ret, matcher, descriptions_json, mappings_json>>

Return(h, out) ==
  /\ running' = [running EXCEPT ![h] = Idle]
  /\ ret' = Op(running[h].op, out)

Goto(h, pc) ==
  /\ running' = [running EXCEPT ![h].pc = pc]
  /\ UNCHANGED ret

\* add_vectors of one row: the index, then the matrix, then the record and
\* the map.
AddStep(h) ==
  LET me == running[h]
      row == Normalize(Encode(TextOf(me.id)))
      meta == [id |-> me.id, text |-> TextOf(me.id), keywords |-> <<>>]
  IN /\ me.op = "add"
     /\ \/ /\ me.pc = 1
           /\ store' = [store EXCEPT !.faiss_index = Append(@, row)]
           /\ Goto(h, 2)
           /\ UNCHANGED tomb
        \/ /\ me.pc = 2
           /\ store' = [store EXCEPT !.vectors = Append(@, row)]
           /\ Goto(h, 3)
           /\ UNCHANGED tomb
        \/ /\ me.pc = 3
           /\ store' = AppendMetas(store, <<meta>>, Len(store.metadata))
           /\ tomb' = tomb \ {me.id}
           /\ Return(h, "ok")
     /\ UNCHANGED <<disk, matcher, descriptions_json, mappings_json>>

\* delete_vector: the slot is looked up, then the two fields are set.
DeleteStep(h) ==
  LET me == running[h]
  IN /\ me.op = "delete"
     /\ \/ /\ me.pc = 1
           /\ IF me.id \in DOMAIN store.id_to_index
                 /\ store.id_to_index[me.id] < Len(store.metadata)
              THEN /\ store' = [store EXCEPT
                                  !.metadata[store.id_to_index[me.id] + 1].deleted = TRUE]
                   /\ running' = [running EXCEPT ![h].pc = 2,
                                                 ![h].index = store.id_to_index[me.id]]
                   /\ UNCHANGED ret
              ELSE /\ Return(h, "false")
                   /\ UNCHANGED store
           /\ UNCHANGED tomb
        \/ /\ me.pc = 2
           /\ IF me.index < Len(store.metadata)
              THEN /\ store' = [store EXCEPT !.metadata[me.index + 1].deleted_at = TRUE]
                   /\ tomb' = tomb \cup {me.id}
                   /\ Return(h, "true")
              ELSE /\ Return(h, "raised")
                   /\ UNCHANGED <<store, tomb>>
     /\ UNCHANGED <<disk, matcher, descriptions_json, mappings_json>>

\* update_metadata: one assignment to the slot.
UpdateStep(h) ==
  LET me == running[h]
  IN /\ me.op = "update"
     /\ me.pc = 1
     /\ \E r \in {UpdateMetadata(store, me.id, "edited")} :
          /\ store' = r.store
          /\ Return(h, IF r.ok THEN "true" ELSE "false")
     /\ UNCHANGED <<disk, tomb, matcher, descriptions_json, mappings_json>>

\* rebuild_index: the loop renumbers the surviving records in place and
\* collects them; then the index, the matrix, the metadata and the map are
\* assigned one after the other.
CompactStep(h) ==
  LET me == running[h]
  IN /\ me.op = "compact"
     /\ \/ /\ me.pc = 1
           /\ \E r \in {RebuildIndex(store)} :
                IF r.raised
                THEN /\ store' = r.store
                     /\ Return(h, "raised")
                ELSE /\ store' = [store EXCEPT !.metadata =
                                    [i \in 1..Len(store.metadata) |->
                                       IF i \in Survivors(store)
                                       THEN [store.metadata[i] EXCEPT
                                               !.index = NewIndex(store, i)]
                                       ELSE store.metadata[i]]]
                     /\ running' = [running EXCEPT ![h].pc = 2, ![h].work = r.store]
                     /\ UNCHANGED ret
        \/ /\ me.pc = 2
           /\ store' = [store EXCEPT !.faiss_index = me.work.faiss_index]
           /\ Goto(h, 3)
        \/ /\ me.pc = 3
           /\ store' = [store EXCEPT !.vectors = me.work.vectors]
           /\ Goto(h, 4)
        \/ /\ me.pc = 4
           /\ store' = [store EXCEPT !.metadata = me.work.metadata]
           /\ Goto(h, 5)
        \/ /\ me.pc = 5
           /\ store' = [store EXCEPT !.id_to_index = me.work.id_to_index]
           /\ Return(h, "ok")
     /\ UNCHANGED <<disk, tomb, matcher, descriptions_json, mappings_json>>

\* save_store: the index file, the metadata file, then the vectors file
\* when there are rows.
SaveStep(h) ==
  LET me == running[h]
  IN /\ me.op = "save"
     /\ \/ /\ me.pc = 1
           /\ disk' = [disk EXCEPT !.index_file = File(store.faiss_index)]
           /\ Goto(h, 2)
        \/ /\ me.pc = 2
           /\ disk' = [disk EXCEPT !.metadata_file = File(store.metadata)]
           /\ Goto(h, 3)
        \/ /\ me.pc = 3
           /\ disk' = [disk EXCEPT !.vectors_file =
                         IF Len(store.vectors) > 0 THEN File(store.vectors) ELSE @]
           /\ Return(h, "true")
     /\ UNCHANGED <<store, tomb, matcher, descriptions_json, mappings_json>>

\* search_similar, get_vector_by_id and get_stats read the store as it is
\* and assign nothing.
ReadStep(h) ==
  /\ running[h].op \in Reads
  /\ Return(h, "ok")
  /\ UNCHANGED <<store, disk, tomb, matcher, descriptions_json, mappings_json>>

ServeNext ==
  \E h \in Handlers :
    \/ Dispatch(h)
    \/ AddStep(h)
    \/ DeleteStep(h)
    \/ UpdateStep(h)
    \/ CompactStep(h)
    \/ SaveStep(h)
    \/ ReadStep(h)

ServeSpec == Init /\ [][ServeNext]_vars

(***************************************************************************)
(* The controller (EngineSpec): ImageMatcher over its SimilarityCalculator *)
(* and the store of the enhanced calculator.  Texts are single words, so   *)
(* jieba yields one token per text.                                        *)
(***************************************************************************)
MaxEngineSlots == 2
MaxDescriptions == 2

\* 0.7 * sim_score + 0.3 * keyword_sim, in tenths.
SimWeight == 7
KeywordWeight == 3
Tenths == SimWeight + KeywordWeight

\* The keyword similarity intersection / union is held in units of
\* 1/KeywordUnit, which every union of at most three tokens divides.
KeywordUnit == 6
Tokens == {"sunset", "cat", "dog"}

\* A combined score is held in units of 1/ScoreUnit per 1/One of a
\* similarity.
ScoreUnit == Tenths * KeywordUnit

Texts == {"sunset", "cat"}
EngineQueries == {"sunset", "cat", "dog"}
EngineThresholds == {0, 20, One}
ImageDirs == {<<>>, <<"a.jpg">>}
ImageNames == {"a.jpg"}

\* keywords=None of add_image_description becomes the empty list.
KeywordInputs == {<<>>}

\* f"desc_{n:03d}"
DescId(n) == <<"desc_001", "desc_002", "desc_003", "desc_004">>[n]

Description(id, text, keywords) == [id |-> id, text |-> text, keywords |-> keywords]

\* The contents descriptions.json may have when the process starts.
Corpora ==
  {<<>>,
   <<Description("desc_001", "sunset", <<>>)>>,
   <<Description("desc_001", "sunset", <<>>), Description("desc_002", "cat", <<>>)>>}

Tokenize(text) == <<text>>

ExtractKeywordsFromText(text) == <<text>>

AutoGenerateKeywords(descriptions) ==
  [i \in 1..Len(descriptions) |->
     IF descriptions[i].keywords = <<>>
     THEN [descriptions[i] EXCEPT !.keywords = ExtractKeywordsFromText(descriptions[i].text)]
     ELSE descriptions[i]]

\* image_mappings is a dict in insertion order: a sequence with one entry
\* per image name.
CreateMappings(images, descriptions) ==
  IF descriptions = <<>> THEN <<>>
  ELSE [i \in 1..Len(images) |->
          [image_name |-> images[i],
           description_id |-> descriptions[((i - 1) % Len(descriptions)) + 1].id]]

SetMapping(mappings, image_name, desc_id) ==
  IF \E i \in 1..Len(mappings) : mappings[i].image_name = image_name
  THEN [i \in 1..Len(mappings) |->
          IF mappings[i].image_name = image_name
          THEN [image_name |-> image_name, description_id |-> desc_id]
          ELSE mappings[i]]
  ELSE Append(mappings, [image_name |-> image_name, description_id |-> desc_id])

(***************************************************************************)
(* build_vector_index: every description of the corpus is embedded and     *)
(* appended to the store, and the store is saved.                          *)
(***************************************************************************)
EnhancedBuildVectorIndex(enh, s, d, descriptions) ==
  IF enh.method # "sentence_transformer" \/ ~enh.sentence_model
  THEN [ok |-> FALSE, raised |-> FALSE, store |-> s, disk |-> d]
  ELSE IF descriptions = <<>>
  THEN [ok |-> FALSE, raised |-> FALSE, store |-> s, disk |-> d]
  ELSE LET vectors == [i \in 1..Len(descriptions) |-> Encode(descriptions[i].text)]
           r == AddVectors(s, vectors, descriptions)
       IN IF r.raised
          THEN [ok |-> FALSE, raised |-> TRUE, store |-> r.store, disk |-> d]
          ELSE [ok |-> TRUE, raised |-> FALSE, store |-> r.store,
                disk |-> SaveStore(r.store, d)]

BuildVectorIndex(calc, s, d, descriptions) ==
  IF calc.has_enhanced
  THEN EnhancedBuildVectorIndex(calc.enhanced_calculator, s, d, descriptions)
  ELSE [ok |-> FALSE, raised |-> FALSE, store |-> s, disk |-> d]

\* The store a new calculator holds: VectorStore(store_dir) loads the
\* directory; without a vector store there is none.
StoreOf(calc, d) ==
  IF calc.enhanced_calculator.vector_store THEN LoadStore(d) ELSE EmptyStore

(***************************************************************************)
(* ImageMatcher.__init__ and initialize.  auto_generate_keywords saves the *)
(* corpus it completed to descriptions.json; the mappings are those of     *)
(* mappings.json, or the ones create_mappings makes and saves.             *)
(***************************************************************************)
ImageMatcher(similarity_method, use_vector_store, model, images, mappings, d, corpus) ==
  LET calc == SimilarityCalculator(similarity_method, use_vector_store, model)
      descriptions == AutoGenerateKeywords(corpus)
      image_mappings == IF mappings = <<>> /\ images # <<>>
                        THEN CreateMappings(images, descriptions)
                        ELSE mappings
      b == IF use_vector_store /\ descriptions # <<>>
           THEN BuildVectorIndex(calc, StoreOf(calc, d), d, descriptions)
           ELSE [ok |-> FALSE, raised |-> FALSE, store |-> StoreOf(calc, d), disk |-> d]
  IN [matcher |-> [descriptions |-> descriptions,
                   image_mappings |-> image_mappings,
                   similarity_calculator |-> calc,
                   use_vector_store |-> use_vector_store],
      descriptions_json |-> descriptions,
      mappings_json |-> image_mappings,
      raised |-> b.raised, store |-> b.store, disk |-> b.disk]

(***************************************************************************)
(* Search.  Scores of the store are in units of 1/One; the scores of       *)
(* find_similar_descriptions and search_images are in units of             *)
(* 1/(ScoreUnit * One).                                                    *)
(***************************************************************************)
RECURSIVE LiveHits(_)
LiveHits(results) ==
  IF results = <<>> THEN <<>>
  ELSE IF Deleted(Head(results).meta)
       THEN LiveHits(Tail(results))
       ELSE <<Head(results)>> \o LiveHits(Tail(results))

SearchSimilarVectors(enh, s, query, top_k, threshold, ties) ==
  IF enh.method # "sentence_transformer" \/ ~enh.sentence_model
  THEN [raised |-> FALSE, res |-> <<>>]
  ELSE LET r == SearchSimilar(s, Encode(query), top_k, threshold, ties)
       IN IF r.raised THEN r ELSE [raised |-> FALSE, res |-> LiveHits(r.res)]

\* cosine_similarity rejects an empty text matrix; a missing vectorizer is
\* an AttributeError.
CalculateTfidfSimilarity(calc, query, texts) ==
  IF ~calc.vectorizer \/ texts = <<>>
  THEN [raised |-> TRUE, sims |-> <<>>]
  ELSE [raised |-> FALSE,
        sims |-> [i \in 1..Len(texts) |-> IF texts[i] = query THEN One ELSE 0]]

CalculateSemanticSimilarity(calc, query, texts) ==
  IF ~calc.sentence_model \/ texts = <<>>
  THEN CalculateTfidfSimilarity(calc, query, texts)
  ELSE [raised |-> FALSE,
        sims |-> [i \in 1..Len(texts) |->
                    IP(Normalize(Encode(query)), Normalize(Encode(texts[i])))]]

\* calculate_keyword_similarity over the lists as given, without set().
CalculateKeywordSimilarityOnLists(query_keywords, target_keywords) ==
  IF query_keywords = <<>> \/ target_keywords = <<>> THEN 0
  ELSE LET intersection ==
             Cardinality({i \in 1..Len(query_keywords) :
                            query_keywords[i] \in Range(target_keywords)})
           union == Len(query_keywords) + Len(target_keywords) - intersection
       IN IF union > 0 THEN (KeywordUnit * intersection) \div union ELSE 0

CalculateKeywordSimilarity(query_keywords, target_keywords) ==
  IF query_keywords = <<>> \/ target_keywords = <<>> THEN 0
  ELSE LET query_set == Range(query_keywords)
           target_set == Range(target_keywords)
           intersection == Cardinality(query_set \cap target_set)
           union == Cardinality(query_set \cup target_set)
       IN IF union > 0 THEN (KeywordUnit * intersection) \div union ELSE 0

RECURSIVE KeepScores(_, _)
KeepScores(scored, threshold) ==
  IF scored = <<>> THEN <<>>
  ELSE IF Head(scored).score >= ScoreUnit * threshold
       THEN <<Head(scored)>> \o KeepScores(Tail(scored), threshold)
       ELSE KeepScores(Tail(scored), threshold)

\* sim_score + keyword_sim, the two similarities added without weights.
CombinedScoreUnweighted(sim_score, keyword_sim) ==
  Tenths * KeywordUnit * sim_score + Tenths * One * keyword_sim

\* combined_score = 0.7 * sim_score + 0.3 * keyword_sim, for sim_score in
\* units of 1/One and keyword_sim in units of 1/KeywordUnit.
CombinedScore(sim_score, keyword_sim) ==
  SimWeight * KeywordUnit * sim_score + KeywordWeight * One * keyword_sim

\* The traditional path with the cut to top_k taken before the filter and
\* the sort.
TraditionalSearchCutsFirst(calc, query, descriptions, top_k, threshold) ==
  LET texts == [i \in 1..Len(descriptions) |-> descriptions[i].text]
      sim == IF calc.method = "sentence_transformer"
             THEN CalculateSemanticSimilarity(calc, query, texts)
             ELSE CalculateTfidfSimilarity(calc, query, texts)
  IN IF sim.raised
     THEN [raised |-> TRUE, res |-> <<>>]
     ELSE LET combined_scores ==
                [i \in 1..Len(descriptions) |->
                   [desc |-> descriptions[i],
                    score |-> CombinedScore(sim.sims[i],
                                CalculateKeywordSimilarity(
                                    Tokenize(query), descriptions[i].keywords))]]
          IN [raised |-> FALSE,
              res |-> SortByScore(KeepScores(Take(combined_scores, top_k), threshold))]

\* The traditional path of find_similar_descriptions.
TraditionalSearch(calc, query, descriptions, top_k, threshold) ==
  LET texts == [i \in 1..Len(descriptions) |-> descriptions[i].text]
      sim == IF calc.method = "sentence_transformer"
             THEN CalculateSemanticSimilarity(calc, query, texts)
             ELSE CalculateTfidfSimilarity(calc, query, texts)
  IN IF sim.raised
     THEN [raised |-> TRUE, res |-> <<>>]
     ELSE LET combined_scores ==
                [i \in 1..Len(descriptions) |->
                   [desc |-> descriptions[i],
                    score |-> CombinedScore(sim.sims[i],
                                CalculateKeywordSimilarity(
                                    Tokenize(query), descriptions[i].keywords))]]
          IN [raised |-> FALSE,
              res |-> Take(SortByScore(KeepScores(combined_scores, threshold)), top_k)]

\* find_similar_descriptions after its guard on an empty corpus: the vector
\* store first, then the traditional path when that found nothing or failed.
FindInCorpus(calc, s, query, descriptions, top_k, threshold, ties) ==
  LET v == IF calc.has_enhanced /\ calc.method = "sentence_transformer"
           THEN SearchSimilarVectors(calc.enhanced_calculator, s, query, top_k,
                                     threshold, ties)
           ELSE [raised |-> FALSE, res |-> <<>>]
  IN IF ~v.raised /\ v.res # <<>>
     THEN [raised |-> FALSE,
           res |-> [i \in 1..Len(v.res) |->
                      [desc |-> Description(v.res[i].meta.id, v.res[i].meta.text,
                                            v.res[i].meta.keywords),
                       score |-> ScoreUnit * v.res[i].score]]]
     ELSE TraditionalSearch(calc, query, descriptions, top_k, threshold)

\* find_similar_descriptions without its guard on an empty corpus.
FindSimilarDescriptionsUnguarded(calc, s, query, descriptions, top_k, threshold, ties) ==
  FindInCorpus(calc, s, query, descriptions, top_k, threshold, ties)

FindSimilarDescriptions(calc, s, query, descriptions, top_k, threshold, ties) ==
  IF descriptions = <<>>
  THEN [raised |-> FALSE, res |-> <<>>]
  ELSE FindInCorpus(calc, s, query, descriptions, top_k, threshold, ties)

RECURSIVE MatchingImages(_, _)
MatchingImages(mappings, hit) ==
  IF mappings = <<>> THEN <<>>
  ELSE IF Head(mappings).description_id = hit.desc.id
       THEN <<[image_name |-> Head(mappings).image_name,
               description |-> hit.desc.text,
               keywords |-> hit.desc.keywords,
               score |-> hit.score]>> \o MatchingImages(Tail(mappings), hit)
       ELSE MatchingImages(Tail(mappings), hit)

RECURSIVE ImageHits(_, _)
ImageHits(similar_descriptions, mappings) ==
  IF similar_descriptions = <<>> THEN <<>>
  ELSE MatchingImages(mappings, Head(similar_descriptions))
         \o ImageHits(Tail(similar_descriptions), mappings)

SearchImages(m, s, query, top_k, threshold, ties) ==
  IF m.descriptions = <<>>
  THEN [raised |-> FALSE, res |-> <<>>]
  ELSE LET f == FindSimilarDescriptions(m.similarity_calculator, s, query,
                                        m.descriptions, top_k, threshold, ties)
       IN IF f.raised \/ f.res = <<>>
          THEN [raised |-> f.raised, res |-> <<>>]
          ELSE [raised |-> FALSE,
                res |-> Take(SortByScore(ImageHits(f.res, m.image_mappings)), top_k)]

(***************************************************************************)
(* get_statistics and get_vector_store_info.  An absent dictionary is the  *)
(* empty sequence, a present one a sequence of one element.                *)
(***************************************************************************)
GetVectorStoreStats(calc, s) ==
  IF calc.has_enhanced /\ calc.enhanced_calculator.vector_store
  THEN <<GetStats(s)>>
  ELSE <<>>

GetStatistics(m, s) ==
  [total_descriptions |-> Len(m.descriptions),
   total_images |-> Len(m.image_mappings),
   similarity_method |-> m.similarity_calculator.method,
   use_vector_store |-> m.use_vector_store,
   vector_stats |-> IF m.use_vector_store
                    THEN GetVectorStoreStats(m.similarity_calculator, s)
                    ELSE <<>>]

GetVectorStoreInfo(m, s) ==
  IF ~m.use_vector_store
  THEN [enabled |-> FALSE, stats |-> <<>>, method |-> <<>>]
  ELSE [enabled |-> TRUE,
        stats |-> GetVectorStoreStats(m.similarity_calculator, s),
        method |-> <<m.similarity_calculator.method>>]

(***************************************************************************)
(* The operations of the controller.                                       *)
(***************************************************************************)
EngineInit ==
  \E corpus \in Corpora, method \in Methods, use_vector_store \in BOOLEAN,
     model \in BOOLEAN, images \in ImageDirs :
    \E w \in {ImageMatcher(method, use_vector_store, model, images, <<>>,
                           EmptyDisk, corpus)} :
       /\ matcher = w.matcher
       /\ store = w.store
       /\ disk = w.disk
       /\ descriptions_json = w.descriptions_json
       /\ mappings_json = w.mappings_json
       /\ running = NoHandlers
       /\ tomb = {}
       /\ ret = Op("start", "ok")

\* The process starts again on the same directories.
Start ==
  \E method \in Methods, use_vector_store \in BOOLEAN, model \in BOOLEAN,
     images \in ImageDirs :
    \E w \in {ImageMatcher(method, use_vector_store, model, images,
                           mappings_json, disk, descriptions_json)} :
       /\ Rows(w.store) <= MaxEngineSlots
       /\ matcher' = w.matcher
       /\ store' = w.store
       /\ disk' = w.disk
       /\ tomb' = {}
       /\ ret' = Op("start", IF w.raised THEN "raised" ELSE "ok")
       /\ descriptions_json' = w.descriptions_json
       /\ mappings_json' = w.mappings_json
       /\ UNCHANGED running

UpdateSimilarityMethod ==
  \E method \in Methods, model \in BOOLEAN :
    LET calc == SimilarityCalculator(method, matcher.use_vector_store, model)
    IN \E b \in {IF method = "sentence_transformer" /\ matcher.use_vector_store
                    /\ matcher.descriptions # <<>>
                 THEN BuildVectorIndex(calc, StoreOf(calc, disk), disk,
                                       matcher.descriptions)
                 ELSE [ok |-> FALSE, raised |-> FALSE,
                       store |-> StoreOf(calc, disk), disk |-> disk]} :
          /\ Rows(b.store) <= MaxEngineSlots
          /\ matcher' = [matcher EXCEPT !.similarity_calculator = calc]
          /\ store' = b.store
          /\ disk' = b.disk
          /\ tomb' = {}
          /\ ret' = Op("update_similarity_method", IF b.raised THEN "raised" ELSE "ok")
          /\ UNCHANGED <<descriptions_json, mappings_json, running>>

\* add_description_to_index of the calculator and of its enhanced calculator.
AddDescriptionToIndex(calc, s, d, description) ==
  IF ~calc.has_enhanced
     \/ calc.enhanced_calculator.method # "sentence_transformer"
     \/ ~calc.enhanced_calculator.sentence_model
  THEN [ok |-> FALSE, raised |-> FALSE, store |-> s, disk |-> d]
  ELSE LET r == AddVectors(s, <<Encode(description.text)>>, <<description>>)
       IN IF r.raised
          THEN [ok |-> FALSE, raised |-> TRUE, store |-> r.store, disk |-> d]
          ELSE [ok |-> TRUE, raised |-> FALSE, store |-> r.store,
                disk |-> SaveStore(r.store, d)]

\* add_image_description: the corpus and the mappings are changed first,
\* then save_mappings writes mappings.json (saved tells whether the write
\* went through or raised), then the description is indexed; any exception
\* makes the call return False.
DoAddImageDescription(saved) ==
  \E image_name \in ImageNames, text \in Texts :
    \E keywords \in KeywordInputs :
      LET new_desc == Description(DescId(Len(matcher.descriptions) + 1), text, keywords)
          image_mappings == SetMapping(matcher.image_mappings, image_name, new_desc.id)
      IN \E a \in {IF saved /\ matcher.use_vector_store
                   THEN AddDescriptionToIndex(matcher.similarity_calculator, store,
                                              disk, new_desc)
                   ELSE [ok |-> FALSE, raised |-> FALSE, store |-> store,
                         disk |-> disk]} :
            /\ Len(matcher.descriptions) < MaxDescriptions
            /\ Rows(a.store) <= MaxEngineSlots
            /\ matcher' = [matcher EXCEPT
                             !.descriptions = Append(@, new_desc),
                             !.image_mappings = image_mappings]
            /\ mappings_json' = IF saved THEN image_mappings ELSE mappings_json
            /\ store' = a.store
            /\ disk' = a.disk
            /\ tomb' = tomb \ (IF a.ok THEN {new_desc.id} ELSE {})
            /\ ret' = Op("add_image_description",
                         IF saved /\ ~a.raised THEN "true" ELSE "false")
            /\ UNCHANGED <<descriptions_json, running>>

AddImageDescription == DoAddImageDescription(TRUE)

\* add_image_description while data/mappings.json cannot be written.
AddImageDescriptionUnsaved == DoAddImageDescription(FALSE)

RebuildVectorIndex ==
  IF matcher.use_vector_store
     /\ matcher.similarity_calculator.enhanced_calculator.vector_store
  THEN \E r \in {RebuildIndex(store)} :
          /\ store' = r.store
          /\ disk' = IF r.raised THEN disk ELSE SaveStore(r.store, disk)
          /\ ret' = Op("rebuild_vector_index", IF r.raised THEN "raised" ELSE "true")
          /\ UNCHANGED <<tomb, engine>>
  ELSE /\ ret' = Op("rebuild_vector_index", "false")
       /\ UNCHANGED <<store, disk, tomb, engine>>

\* delete_vector on the store of the enhanced calculator.
StoreDelete ==
  /\ matcher.similarity_calculator.enhanced_calculator.vector_store
  /\ Delete

Search ==
  \E query \in EngineQueries, top_k \in TopKs, threshold \in EngineThresholds,
     ties \in FaissTies :
    \E r \in {SearchImages(matcher, store, query, top_k, threshold, ties)} :
       /\ ret' = Op("search_images",
                    IF r.raised THEN "raised"
                    ELSE IF r.res = <<>> THEN "empty" ELSE "hits")
       /\ UNCHANGED <<store, disk, tomb, engine>>

EngineNext ==
  \/ Start
  \/ UpdateSimilarityMethod
  \/ AddImageDescription
  \/ RebuildVectorIndex
  \/ StoreDelete
  \/ Search

EngineSpec == EngineInit /\ [][EngineNext]_vars

(***************************************************************************)
(* The vector search of the engine on a store of up to three slots         *)
(* (GapSpec): the semantic calculator indexes descriptions one at a time,  *)
(* records are tombstoned, and search_similar_vectors is called; ret keeps *)
(* the call and what it returned.                                          *)
(***************************************************************************)
MaxGapSlots == 3

GapTexts == {"sunset", "cat"}
GapQueries == {"sunset", "dog"}
GapThresholds == {0, 20}

SemanticCalculator == SimilarityCalculator("sentence_transformer", TRUE, TRUE)

GapInit ==
  \E w \in {ImageMatcher("sentence_transformer", TRUE, TRUE, <<>>, <<>>,
                         EmptyDisk, <<>>)} :
     /\ matcher = w.matcher
     /\ store = w.store
     /\ disk = w.disk
     /\ descriptions_json = w.descriptions_json
     /\ mappings_json = w.mappings_json
     /\ running = NoHandlers
     /\ tomb = {}
     /\ ret = Op("start", "ok")

GapAdd ==
  \E text \in GapTexts :
    \E a \in {AddDescriptionToIndex(SemanticCalculator, store, disk,
                Description(DescId(Len(store.metadata) + 1), text, <<>>))} :
       /\ Len(store.metadata) < MaxGapSlots
       /\ store' = a.store
       /\ disk' = a.disk
       /\ ret' = Op("add_description_to_index", IF a.ok THEN "true" ELSE "false")
       /\ UNCHANGED <<tomb, engine>>

GapDelete ==
  \E i \in 1..Len(store.metadata) :
    \E r \in {DeleteVector(store, store.metadata[i].id)} :
       /\ ~Deleted(store.metadata[i])
       /\ store' = r.store
       /\ tomb' = tomb \cup {store.metadata[i].id}
       /\ ret' = Op("delete", IF r.ok THEN "true" ELSE "false")
       /\ UNCHANGED <<disk, engine>>

GapSearch ==
  \E query \in GapQueries, top_k \in TopKs, threshold \in GapThresholds,
     ties \in FaissTies :
    /\ ret' = [op |-> "search_similar_vectors",
               out |-> SearchSimilarVectors(SemanticCalculator.enhanced_calculator,
                                            store, query, top_k, threshold, ties),
               query |-> query, top_k |-> top_k, threshold |-> threshold,
               ties |-> ties]
    /\ UNCHANGED <<store, disk, tomb, engine>>

GapNext == GapAdd \/ GapDelete \/ GapSearch

GapSpec == GapInit /\ [][GapNext]_vars

(***************************************************************************)
(* The operations of the service that add descriptions (CorpusSpec):       *)
(* add_image_description, with mappings.json writable or not, and the      *)
(* batch-descriptions route.                                               *)
(***************************************************************************)
\* f"batch_desc_{n:03d}"
BatchDescId(n) ==
  <<"batch_desc_001", "batch_desc_002", "batch_desc_003", "batch_desc_004">>[n]

BatchRequests == SeqsUpTo(Texts, MaxBatch)

\* process_batch_descriptions: the texts become descriptions appended to
\* the corpus, and the corpus is saved to descriptions.json.
BatchDescriptions ==
  \E texts \in BatchRequests, auto_generate_keywords \in BOOLEAN :
    LET desc_objects ==
          [i \in 1..Len(texts) |->
             Description(BatchDescId(Len(matcher.descriptions) + i), texts[i],
                         IF auto_generate_keywords
                         THEN ExtractKeywordsFromText(texts[i]) ELSE <<>>)]
    IN /\ Len(matcher.descriptions) + Len(texts) <= MaxDescriptions
       /\ matcher' = [matcher EXCEPT !.descriptions = @ \o desc_objects]
       /\ descriptions_json' = matcher.descriptions \o desc_objects
       /\ ret' = Op("batch_descriptions", "ok")
       /\ UNCHANGED <<store, disk, tomb, mappings_json, running>>

CorpusNext == AddImageDescription \/ AddImageDescriptionUnsaved \/ BatchDescriptions

CorpusSpec == EngineInit /\ [][CorpusNext]_vars

(***************************************************************************)
(* calculate_keyword_similarity on its own (KeywordSpec): the two token    *)
(* lists are drawn at the start, the call records its value in ret, and    *)
(* the next call takes the lists in the other order.                       *)
(***************************************************************************)
MaxTokens == 2

TokenLists == {<<>>} \cup SeqsUpTo(Tokens, MaxTokens)

KeywordInit ==
  /\ store = EmptyStore
  /\ disk = EmptyDisk
  /\ tomb = {}
  /\ matcher = [descriptions |-> <<>>, image_mappings |-> <<>>,
                similarity_calculator |-> SimilarityCalculator("tfidf", TRUE, TRUE),
                use_vector_store |-> TRUE]
  /\ descriptions_json = <<>>
  /\ mappings_json = <<>>
  /\ running = NoHandlers
  /\ \E q \in TokenLists, k \in TokenLists :
       ret = [op |-> "inputs", out |-> 0, query_keywords |-> q, target_keywords |-> k]

KeywordCall ==
  /\ ret.op = "inputs"
  /\ ret' = [ret EXCEPT !.op = "calculate_keyword_similarity",
                        !.out = CalculateKeywordSimilarity(ret.query_keywords,
                                                           ret.target_keywords)]
  /\ UNCHANGED <<store, disk, tomb, engine>>

KeywordSwap ==
  /\ ret.op = "calculate_keyword_similarity"
  /\ ret' = [op |-> "inputs", out |-> 0,
             query_keywords |-> ret.target_keywords,
             target_keywords |-> ret.query_keywords]
  /\ UNCHANGED <<store, disk, tomb, engine>>

KeywordNext == KeywordCall \/ KeywordSwap

KeywordSpec == KeywordInit /\ [][KeywordNext]_vars

(***************************************************************************)
(* Claims about the store of the running process (Spec).                   *)
(***************************************************************************)
ResultIds(r) == {r.res[i].meta.id : i \in 1..Len(r.res)}

SearchIds(s, q, top_k, threshold, ties) == ResultIds(SearchSimilar(s, q, top_k, threshold, ties))

\* C1 (as claimed): an id whose delete returned True, and that no add has
\* re-introduced since, is in the result of no search, whatever the query
\* vector, top_k and threshold.
C1_TombstoneExclusion ==
  \A id \in tomb, q \in Queries, k \in TopKs, th \in Thresholds, ties \in FaissTies :
    id \notin SearchIds(store, q, k, th, ties)

\* C2 (as claimed): the set of ids a search returns right before
\* rebuild_index equals the set the same search returns right after it.
C2_CompactionEquivalence ==
  [][ret'.op = "compact" =>
       \A q \in Queries, k \in TopKs, th \in Thresholds, ties \in FaissTies :
         SearchIds(store, q, k, th, ties) = SearchIds(store', q, k, th, ties)]_vars

Mismatched(b) ==
  \/ Len(b.vecs) # Len(b.metas)
  \/ \E i \in 1..Len(b.vecs) : Len(b.vecs[i]) # embedding_dim

\* C5: an add whose vector count differs from its record count, or whose
\* vectors are not embedding_dim wide, raises and leaves the index, the
\* vector matrix, the metadata, the id map and so total_vectors as they were.
C5_MismatchLeavesStoreUnchanged ==
  \A b \in AddInputs :
    Mismatched(b) =>
      /\ AddVectors(store, b.vecs, b.metas).raised
      /\ AddVectors(store, b.vecs, b.metas).store = store
      /\ GetStats(AddVectors(store, b.vecs, b.metas).store).total_vectors
           = GetStats(store).total_vectors

C5_Witness ==
  /\ ret = Op("add", "raised")
  /\ Len(store.metadata) > 0
  /\ \E b \in AddInputs : Mismatched(b) /\ Len(b.vecs) = Len(b.metas)

\* C6 (as claimed): in no reachable state does the store hold a vector that
\* is the result of dividing by a zero norm.
C6_NoNaNStored ==
  /\ \A i \in 1..Len(store.vectors) : ~store.vectors[i].nan
  /\ \A i \in 1..Len(store.faiss_index) : ~store.faiss_index[i].nan

\* C22 (as claimed): in every state reachable by add and compact, every row
\* of the vector matrix and every entry of the exact-search index has unit
\* L2 norm, whatever the norm of the vector passed to add.
C22_StoredVectorsAreUnit ==
  /\ \A i \in 1..Len(store.vectors) : IsUnit(store.vectors[i])
  /\ \A i \in 1..Len(store.faiss_index) : IsUnit(store.faiss_index[i])

\* C9 (as claimed): a search returns at most top_k results, each with a
\* score >= threshold, in non-increasing score order, equal scores in
\* ascending slot order.
ResultShape(res, top_k, threshold) ==
  /\ Len(res) <= top_k
  /\ \A i \in 1..Len(res) : res[i].score >= threshold
  /\ \A i, j \in 1..Len(res) :
       i < j => \/ res[i].score > res[j].score
                \/ /\ res[i].score = res[j].score
                   /\ res[i].meta.index < res[j].meta.index

C9_SearchResultShape ==
  \A q \in Queries, k \in TopKs, th \in Thresholds, ties \in FaissTies :
    ResultShape(SearchSimilar(store, q, k, th, ties).res, k, th)

\* An id no caller has added, besides the ids of the model.
ProbeIds == Ids \cup {"desc_999"}

\* C11: for an id that is not in id_to_index, get_vector_by_id returns
\* None, update_metadata and delete_vector return False, and the index, the
\* vectors, the metadata and the map are as before the call.
C11_NotFoundIsAValue ==
  \A id \in ProbeIds :
    id \notin DOMAIN store.id_to_index =>
      /\ ~GetVectorById(store, id).found
      /\ \A text \in NewTexts :
           UpdateMetadata(store, id, text) = [ok |-> FALSE, store |-> store]
      /\ DeleteVector(store, id) = [ok |-> FALSE, store |-> store]

\* A delete of an absent id has returned False on a store that holds a record.
C11_Witness ==
  /\ ret = Op("delete", "false")
  /\ Len(store.metadata) > 0
  /\ \E id \in Ids : id \notin DOMAIN store.id_to_index

\* C12: delete_vector of an id of the map returns True, sets deleted (and
\* deleted_at) on the record of that id and changes nothing else: the
\* number of records, every vector, the index, the map and every other
\* record are as before, and get_vector_by_id still returns the slot's
\* vector and record.
C12_DeleteIsTombstoneOnly ==
  \A id \in DOMAIN store.id_to_index :
    LET r == DeleteVector(store, id)
        slot == store.id_to_index[id] + 1
    IN /\ r.ok
       /\ Len(r.store.metadata) = Len(store.metadata)
       /\ r.store.metadata[slot] =
            [store.metadata[slot] EXCEPT !.deleted = TRUE, !.deleted_at = TRUE]
       /\ \A i \in 1..Len(store.metadata) :
            i # slot => r.store.metadata[i] = store.metadata[i]
       /\ r.store.vectors = store.vectors
       /\ r.store.faiss_index = store.faiss_index
       /\ r.store.id_to_index = store.id_to_index
       /\ GetVectorById(r.store, id) =
            [found |-> TRUE, vector |-> <<store.vectors[slot]>>,
             meta |-> <<r.store.metadata[slot]>>]

\* A delete has returned True on a store of two records, one of them live.
C12_Witness ==
  /\ ret = Op("delete", "true")
  /\ Len(store.metadata) = MaxSlots
  /\ Len(store.vectors) = MaxSlots
  /\ \E i \in 1..Len(store.metadata) : Deleted(store.metadata[i])
  /\ \E i \in 1..Len(store.metadata) : ~Deleted(store.metadata[i])

\* C13 (as claimed): update_metadata of an id of the map returns True,
\* leaves the slot's vector and index as they were and keeps the record's
\* id, deleted, deleted_at and created_at; a tombstoned record stays
\* tombstoned.
C13_UpdateKeepsSystemFields ==
  \A id \in DOMAIN store.id_to_index, text \in NewTexts :
    LET r == UpdateMetadata(store, id, text)
        slot == store.id_to_index[id] + 1
    IN /\ r.ok
       /\ r.store.vectors = store.vectors
       /\ r.store.faiss_index = store.faiss_index
       /\ r.store.metadata[slot].index = store.metadata[slot].index
       /\ r.store.metadata[slot].id = store.metadata[slot].id
       /\ r.store.metadata[slot].deleted = store.metadata[slot].deleted
       /\ r.store.metadata[slot].deleted_at = store.metadata[slot].deleted_at
       /\ r.store.metadata[slot].created_at = store.metadata[slot].created_at

(***************************************************************************)
(* Claims about the store and its directory (DiskSpec, FaultSpec).         *)
(***************************************************************************)
\* What a caller can see of a store: stats, every probe search, every get.
Observable(s) ==
  [stats |-> GetStats(s),
   search |-> [q \in Queries, k \in TopKs, th \in Thresholds, ties \in FaissTies |->
                 SearchSimilar(s, q, k, th, ties)],
   get |-> [id \in Ids |-> GetVectorById(s, id)]]

AfterAdd(s, m) == AddVectors(s, <<Encode(m.text)>>, <<m>>).store

\* C3 (as claimed): right after save_store, a new store loaded from the
\* directory has the stats and the search results of the saved one, and
\* behaves like it under a further add.
C3_PersistenceRoundTrip ==
  ret = Op("save", "true") =>
    /\ GetStats(LoadStore(disk)) = GetStats(store)
    /\ Observable(LoadStore(disk)).search = Observable(store).search
    /\ \A m \in InMetas :
         Observable(AfterAdd(LoadStore(disk), m)) = Observable(AfterAdd(store, m))

FilesOk(d) == \A f \in Files : d[f].state = "ok"

CompleteState(d) ==
  [faiss_index |-> d.index_file.data,
   vectors |-> d.vectors_file.data,
   metadata |-> d.metadata_file.data,
   id_to_index |-> MapFromMetas(d.metadata_file.data, Len(d.metadata_file.data))]

\* C4 (as claimed): after load_store the store is either the complete
\* persisted state (all three artifacts loaded) or the empty store.
C4_AllOrNothingLoad ==
  ret = Op("load", "ok") =>
    \/ FilesOk(disk) /\ store = CompleteState(disk)
    \/ store = EmptyStore

\* t is the compaction of s: the live records of s in their order, each
\* with its row of the matrix and its entry of the index, indices 0..n-1,
\* the map over exactly the surviving ids, no deleted record left.
LiveSlots(s) == {i \in 1..Len(s.metadata) : ~s.metadata[i].deleted}

IsCompactionOf(t, s) ==
  LET n == Cardinality(LiveSlots(s))
      pos(i) == Cardinality({j \in LiveSlots(s) : j <= i})
  IN /\ Len(t.metadata) = n
     /\ Len(t.vectors) = n
     /\ Len(t.faiss_index) = n
     /\ \A i \in LiveSlots(s) :
          /\ t.metadata[pos(i)] = [s.metadata[i] EXCEPT !.index = pos(i) - 1]
          /\ i <= Len(s.vectors) /\ t.vectors[pos(i)] = s.vectors[i]
          /\ i <= Len(s.faiss_index) /\ t.faiss_index[pos(i)] = s.faiss_index[i]
     /\ DOMAIN t.id_to_index = {s.metadata[i].id : i \in LiveSlots(s)}
     /\ \A id \in DOMAIN t.id_to_index :
          /\ t.id_to_index[id] \in 0..(n - 1)
          /\ t.metadata[t.id_to_index[id] + 1].id = id
     /\ GetStats(t).deleted_vectors = 0
     /\ n = 0 => t = EmptyStore

\* C14 (as claimed): rebuild_index on any store the program reaches yields
\* the compaction of that store, the empty store when every record was
\* tombstoned.
C14_CompactionResult ==
  /\ ~RebuildIndex(store).raised
  /\ IsCompactionOf(RebuildIndex(store).store, store)

\* The normalized vector that DiskAdd passes to add together with the record
\* of this id.
AddedWith(id) == Normalize(Encode(TextOf(id)))

\* C23 (as claimed): in every state reachable by add, delete, update,
\* compact, persist and load on one store directory, the exact-search index,
\* the vector matrix and the metadata have the same number of entries, row i
\* of the matrix and of the index is the normalized vector added together
\* with record i, and get(id) returns the vector added with that id.
C23_SlotAlignment ==
  /\ Len(store.faiss_index) = Len(store.metadata)
  /\ Len(store.vectors) = Len(store.metadata)
  /\ \A i \in 1..Len(store.metadata) :
       /\ store.vectors[i] = AddedWith(store.metadata[i].id)
       /\ store.faiss_index[i] = AddedWith(store.metadata[i].id)
  /\ \A id \in DOMAIN store.id_to_index :
       /\ GetVectorById(store, id).found
       /\ GetVectorById(store, id).vector = <<AddedWith(id)>>

\* Every slot of s is the same slot of t: same record id and index field at
\* the same position of the metadata, same row at the same position of the
\* matrix and of the index; t has at most gained slots after them.
SlotsKept(s, t) ==
  /\ Len(t.metadata) >= Len(s.metadata)
  /\ Len(t.vectors) >= Len(s.vectors)
  /\ Len(t.faiss_index) >= Len(s.faiss_index)
  /\ \A i \in 1..Len(s.metadata) :
       /\ t.metadata[i].id = s.metadata[i].id
       /\ t.metadata[i].index = s.metadata[i].index
  /\ \A i \in 1..Len(s.vectors) : t.vectors[i] = s.vectors[i]
  /\ \A i \in 1..Len(s.faiss_index) : t.faiss_index[i] = s.faiss_index[i]

\* add returns the positions after the existing records, and puts each new
\* record at the position it returns.
AddAppends(s) ==
  \A m1 \in InMetas, m2 \in InMetas :
    LET r == AddVectors(s, <<Encode(m1.text), Encode(m2.text)>>, <<m1, m2>>)
    IN /\ ~r.raised
       /\ SlotsKept(s, r.store)
       /\ r.indices = <<Len(s.metadata), Len(s.metadata) + 1>>
       /\ \A k \in 1..2 :
            /\ r.store.metadata[r.indices[k] + 1].id = <<m1, m2>>[k].id
            /\ r.store.metadata[r.indices[k] + 1].index = r.indices[k]
            /\ r.store.id_to_index[<<m1, m2>>[k].id] >= Len(s.metadata)

\* C24: the slot of a record (its position in the metadata and in the vector
\* matrix, and the index add returned for it) is not changed by add, delete,
\* update_metadata or persist, nor by the reads search, get and stats, which
\* assign nothing; only compact moves existing records, and add appends its
\* new slots after the existing ones.
C24_SlotStability ==
  [][/\ ret'.op \in {"add", "delete", "update", "save"} =>
          /\ SlotsKept(store, store')
          /\ \A id \in DOMAIN store.id_to_index :
               /\ id \in DOMAIN store'.id_to_index
               /\ \/ store'.id_to_index[id] = store.id_to_index[id]
                  \/ /\ ret'.op = "add"
                     /\ store'.id_to_index[id] >= Len(store.metadata)
          /\ ret'.op # "add" => Len(store'.metadata) = Len(store.metadata)
      /\ AddAppends(store)]_vars

\* An add has appended a slot after a tombstoned one, which is still in
\* first place.
C24_Witness ==
  /\ ret = Op("add", "ok")
  /\ Len(store.metadata) = MaxDiskSlots
  /\ Deleted(store.metadata[1])
  /\ ~Deleted(store.metadata[2])
  /\ store.metadata[1].index = 0

\* C15: get_stats reports total_vectors = number of records, deleted_vectors
\* = number of records with deleted set, active_vectors = total - deleted,
\* none of them negative; an add of N records raises total and active by N,
\* a delete of a live id moves one from active to deleted, and rebuild_index
\* sets total to the active count it found.
C15_StatsIdentity ==
  LET st == GetStats(store)
  IN /\ st.total_vectors = Len(store.metadata)
     /\ st.deleted_vectors =
          Cardinality({i \in 1..Len(store.metadata) : store.metadata[i].deleted})
     /\ st.active_vectors = st.total_vectors - st.deleted_vectors
     /\ st.total_vectors >= 0 /\ st.active_vectors >= 0 /\ st.deleted_vectors >= 0
     /\ \A b \in AddInputs :
          LET r == AddVectors(store, b.vecs, b.metas)
          IN ~r.raised =>
               /\ GetStats(r.store).total_vectors = st.total_vectors + Len(b.metas)
               /\ GetStats(r.store).active_vectors = st.active_vectors + Len(b.metas)
               /\ GetStats(r.store).deleted_vectors = st.deleted_vectors
     /\ \A id \in DOMAIN store.id_to_index :
          ~store.metadata[store.id_to_index[id] + 1].deleted =>
             LET r == DeleteVector(store, id)
             IN /\ GetStats(r.store).total_vectors = st.total_vectors
                /\ GetStats(r.store).active_vectors = st.active_vectors - 1
                /\ GetStats(r.store).deleted_vectors = st.deleted_vectors + 1
     /\ ~RebuildIndex(store).raised =>
          /\ GetStats(RebuildIndex(store).store).total_vectors = st.active_vectors
          /\ GetStats(RebuildIndex(store).store).deleted_vectors = 0

\* An add has succeeded on a store that holds a tombstoned record.
C15_Witness ==
  /\ ret = Op("add", "ok")
  /\ GetStats(store).deleted_vectors = 1
  /\ GetStats(store).active_vectors = 1
  /\ GetStats(store).total_vectors = MaxDiskSlots

\* C7: every id of id_to_index maps to an index i with
\* 0 <= i < len(metadata) and metadata[i].id equal to that id.
C7_IdMapInvariant ==
  \A id \in DOMAIN store.id_to_index :
    /\ 0 <= store.id_to_index[id]
    /\ store.id_to_index[id] < Len(store.metadata)
    /\ store.metadata[store.id_to_index[id] + 1].id = id

C7_Witness ==
  /\ ret = Op("compact", "ok")
  /\ Len(store.metadata) = MaxDiskSlots
  /\ store.metadata[1].id = store.metadata[2].id
  /\ disk.metadata_file.state = "ok"
  /\ Len(disk.metadata_file.data) > 0
  /\ DOMAIN store.id_to_index # {}

(***************************************************************************)
(* Claims about the controller (EngineSpec).                               *)
(***************************************************************************)
\* C8: after any sequence of controller operations (a start that loads the
\* persisted store and builds the index over the corpus, a single
\* add_description_to_index, the switch to the semantic method, a rebuild),
\* no two non-deleted slots of the store hold the same id.
C8_OneRecordPerId ==
  \A i, j \in 1..Len(store.metadata) :
     (i # j /\ ~Deleted(store.metadata[i]) /\ ~Deleted(store.metadata[j]))
        => store.metadata[i].id # store.metadata[j].id

\* A load of the directory gives the metadata, the rows and the index
\* entries of s.
DescribedOnDisk(s, d) ==
  /\ LoadStore(d).metadata = s.metadata
  /\ LoadStore(d).vectors = s.vectors
  /\ LoadStore(d).faiss_index = s.faiss_index

\* The calculator in use indexes descriptions: semantic method, model
\* loaded, vector store present.
Indexing ==
  /\ matcher.use_vector_store
  /\ matcher.similarity_calculator.has_enhanced
  /\ matcher.similarity_calculator.enhanced_calculator.method = "sentence_transformer"
  /\ matcher.similarity_calculator.enhanced_calculator.sentence_model

\* C25 (as claimed): when build_vector_index, add_description_to_index or
\* rebuild_vector_index has returned success, the three files describe the
\* store in memory: a load would give the same metadata, rows and index.
C25_PersistAfterMutation ==
  /\ ret = Op("rebuild_vector_index", "true") => DescribedOnDisk(store, disk)
  /\ (ret = Op("add_image_description", "true") /\ Indexing) =>
       DescribedOnDisk(store, disk)
  /\ (ret \in {Op("start", "ok"), Op("update_similarity_method", "ok")}
      /\ Indexing /\ matcher.descriptions # <<>>) =>
       DescribedOnDisk(store, disk)

\* The calculator a request for the semantic method leaves when the model
\* does not load, and the calculator of the lexical method.
FailedSemantic(use_vector_store) ==
  SimilarityCalculator("sentence_transformer", use_vector_store, FALSE)

Lexical(use_vector_store) == SimilarityCalculator("tfidf", use_vector_store, TRUE)

\* C16 (as claimed): when the semantic method was requested, with or
\* without the vector store, and the model did not load, every search over
\* a non-empty corpus raises nothing and returns the ranking the lexical
\* method returns for the same query, corpus, top_k and threshold.
C16_GracefulFallback ==
  (/\ matcher.similarity_calculator = FailedSemantic(matcher.use_vector_store)
   /\ matcher.descriptions # <<>>) =>
     \A query \in EngineQueries, top_k \in TopKs,
        threshold \in EngineThresholds, ties \in FaissTies :
        /\ ~SearchImages(matcher, store, query, top_k, threshold, ties).raised
        /\ FindSimilarDescriptions(matcher.similarity_calculator, store, query,
                                   matcher.descriptions, top_k, threshold, ties)
             = FindSimilarDescriptions(Lexical(matcher.use_vector_store), store, query,
                                       matcher.descriptions, top_k, threshold, ties)
        /\ SearchImages(matcher, store, query, top_k, threshold, ties)
             = SearchImages([matcher EXCEPT !.similarity_calculator =
                                              Lexical(matcher.use_vector_store)],
                            store, query, top_k, threshold, ties)

\* The method that scores a search: the semantic one when the calculator
\* or its enhanced calculator holds a model, the lexical one otherwise.
EffectiveMethod(calc) ==
  IF /\ calc.method = "sentence_transformer"
     /\ \/ calc.sentence_model
        \/ /\ calc.has_enhanced
           /\ calc.enhanced_calculator.method = "sentence_transformer"
           /\ calc.enhanced_calculator.sentence_model
  THEN "sentence_transformer"
  ELSE "tfidf"

\* C17 (as claimed): after a method switch, similarity_method of
\* get_statistics and method of get_vector_store_info name the method that
\* scores; after a switch to the semantic method whose model did not load
\* they name the lexical method.
C17_EffectiveMethodReported ==
  ret.op = "update_similarity_method" =>
    /\ GetStatistics(matcher, store).similarity_method
         = EffectiveMethod(matcher.similarity_calculator)
    /\ GetVectorStoreInfo(matcher, store).enabled =>
         GetVectorStoreInfo(matcher, store).method
           = <<EffectiveMethod(matcher.similarity_calculator)>>
    /\ matcher.similarity_calculator = FailedSemantic(matcher.use_vector_store) =>
         GetStatistics(matcher, store).similarity_method = "tfidf"

\* The ranking of the full path, stated by position: the entries whose
\* combined score reaches the threshold, an entry before another when its
\* score is higher or, at equal score, when it comes first in the corpus,
\* cut to the first top_k.
HybridRanking(calc, query, descriptions, top_k, threshold) ==
  LET texts == [i \in 1..Len(descriptions) |-> descriptions[i].text]
      sims == IF calc.method = "sentence_transformer"
              THEN CalculateSemanticSimilarity(calc, query, texts).sims
              ELSE CalculateTfidfSimilarity(calc, query, texts).sims
      combined(i) ==
        SimWeight * KeywordUnit * sims[i]
        + KeywordWeight * One
            * CalculateKeywordSimilarity(Tokenize(query), descriptions[i].keywords)
      kept == {i \in 1..Len(descriptions) : combined(i) >= ScoreUnit * threshold}
      rank(i) ==
        1 + Cardinality({j \in kept : \/ combined(j) > combined(i)
                                      \/ combined(j) = combined(i) /\ j < i})
  IN [p \in 1..Min2(top_k, Cardinality(kept)) |->
        LET i == CHOOSE i \in kept : rank(i) = p
        IN [desc |-> descriptions[i], score |-> combined(i)]]

C28_FastPathDispatch ==
  (/\ matcher.similarity_calculator.has_enhanced
   /\ matcher.similarity_calculator.method = "sentence_transformer"
   /\ matcher.similarity_calculator.enhanced_calculator.sentence_model
   /\ matcher.descriptions # <<>>) =>
    \A query \in EngineQueries, top_k \in TopKs, threshold \in EngineThresholds,
       ties \in FaissTies :
      LET calc == matcher.similarity_calculator
          v == SearchSimilarVectors(calc.enhanced_calculator, store, query, top_k,
                                    threshold, ties)
          f == FindSimilarDescriptions(calc, store, query, matcher.descriptions,
                                       top_k, threshold, ties)
      IN IF ~v.raised /\ v.res # <<>>
         THEN /\ ~f.raised
              /\ f.res = [i \in 1..Len(v.res) |->
                            [desc |-> [id |-> v.res[i].meta.id,
                                       text |-> v.res[i].meta.text,
                                       keywords |-> v.res[i].meta.keywords],
                             score |-> ScoreUnit * v.res[i].score]]
         ELSE /\ ~f.raised
              /\ f.res = HybridRanking(calc, query, matcher.descriptions, top_k,
                                       threshold)

\* C18 (as claimed): after a start or a switch that enters the semantic
\* method with the vector store, the store holds one slot per description
\* of the corpus, in corpus order, and nothing else, so total_vectors is the
\* corpus size.
C18_EnteringSemanticVectorRebuilds ==
  (/\ ret.op \in {"start", "update_similarity_method"}
   /\ ret.out = "ok"
   /\ matcher.use_vector_store
   /\ matcher.similarity_calculator.method = "sentence_transformer"
   /\ matcher.similarity_calculator.enhanced_calculator.vector_store) =>
     /\ GetStats(store).total_vectors = Len(matcher.descriptions)
     /\ Len(store.faiss_index) = Len(matcher.descriptions)
     /\ \A i \in 1..Len(store.metadata) :
          i <= Len(matcher.descriptions) /\ store.metadata[i].id = matcher.descriptions[i].id

NoResults == [raised |-> FALSE, res |-> <<>>]

\* C10: with an empty corpus, search_images and find_similar_descriptions
\* return the empty sequence and raise nothing, whatever the calculator
\* holds; on a store whose index holds zero vectors, search_similar and
\* search_similar_vectors return the empty sequence and raise nothing, for
\* every query, the zero vector included.
C10_SearchNeverRaisesOnEmptiness ==
  /\ matcher.descriptions = <<>> =>
       \A query \in EngineQueries, top_k \in TopKs,
          threshold \in EngineThresholds, ties \in FaissTies :
          /\ SearchImages(matcher, store, query, top_k, threshold, ties) = NoResults
          /\ FindSimilarDescriptions(matcher.similarity_calculator, store, query,
                                     matcher.descriptions, top_k, threshold, ties)
               = NoResults
  /\ Len(store.faiss_index) = 0 =>
       /\ \A q \in Queries, top_k \in TopKs, threshold \in Thresholds,
             ties \in FaissTies :
             SearchSimilar(store, q, top_k, threshold, ties) = NoResults
       /\ \A query \in EngineQueries, top_k \in TopKs,
             threshold \in EngineThresholds, ties \in FaissTies :
             SearchSimilarVectors(matcher.similarity_calculator.enhanced_calculator,
                                  store, query, top_k, threshold, ties) = NoResults

\* A search has run on a controller in vector-store mode whose corpus is
\* empty while its store holds a vector.
C10_Witness ==
  /\ ret = Op("search_images", "empty")
  /\ matcher.descriptions = <<>>
  /\ matcher.similarity_calculator.method = "sentence_transformer"
  /\ matcher.similarity_calculator.enhanced_calculator.vector_store
  /\ Len(store.faiss_index) > 0
(***************************************************************************)
(* The scoring loop of find_similar_descriptions on its own (ScoreSpec):   *)
(* the query tokens are drawn at the start; each turn of the loop takes a  *)
(* corpus entry, that is a similarity between -1 and 1 and a keyword list, *)
(* and records its combined score in ret.                                  *)
(***************************************************************************)
SimScores == (0 - One)..One

ScoreInit ==
  /\ store = EmptyStore
  /\ disk = EmptyDisk
  /\ tomb = {}
  /\ matcher = [descriptions |-> <<>>, image_mappings |-> <<>>,
                similarity_calculator |-> SimilarityCalculator("tfidf", TRUE, TRUE),
                use_vector_store |-> TRUE]
  /\ descriptions_json = <<>>
  /\ mappings_json = <<>>
  /\ running = NoHandlers
  /\ \E q \in TokenLists, k \in TokenLists, sim \in SimScores :
       ret = [op |-> "entry", out |-> 0, query_keywords |-> q,
              target_keywords |-> k, sim_score |-> sim]

ScoreCall ==
  /\ ret.op = "entry"
  /\ ret' = [ret EXCEPT !.op = "combined_score",
                        !.out = CombinedScore(ret.sim_score,
                                  CalculateKeywordSimilarity(ret.query_keywords,
                                                             ret.target_keywords))]
  /\ UNCHANGED <<store, disk, tomb, engine>>

ScoreNextEntry ==
  /\ ret.op = "combined_score"
  /\ \E k \in TokenLists, sim \in SimScores :
       ret' = [op |-> "entry", out |-> 0, query_keywords |-> ret.query_keywords,
               target_keywords |-> k, sim_score |-> sim]
  /\ UNCHANGED <<store, disk, tomb, engine>>

ScoreNext == ScoreCall \/ ScoreNextEntry

ScoreSpec == ScoreInit /\ [][ScoreNext]_vars


(***************************************************************************)
(* Claims about calculate_keyword_similarity (KeywordSpec).                *)
(***************************************************************************)
\* C20: calculate_keyword_similarity(q, k) is |set(q) & set(k)| divided by
\* |set(q) | set(k)|, duplicates in the lists not counting; it is 0 when a
\* list is empty, lies between 0 and 1, and is the same with the lists
\* exchanged.
C20_KeywordScoreIsJaccard ==
  ret.op = "calculate_keyword_similarity" =>
    LET q == {ret.query_keywords[i] : i \in 1..Len(ret.query_keywords)}
        k == {ret.target_keywords[i] : i \in 1..Len(ret.target_keywords)}
    IN /\ (q = {} \/ k = {}) => ret.out = 0
       /\ (q # {} /\ k # {}) =>
            ret.out * Cardinality(q \cup k) = KeywordUnit * Cardinality(q \cap k)
       /\ 0 <= ret.out /\ ret.out <= KeywordUnit
       /\ ret.out = CalculateKeywordSimilarity(ret.target_keywords, ret.query_keywords)

\* The call has returned a value strictly between 0 and 1 for a query list
\* that repeats a token.
C20_Witness ==
  /\ ret.op = "calculate_keyword_similarity"
  /\ Len(ret.query_keywords) = MaxTokens
  /\ ret.query_keywords[1] = ret.query_keywords[2]
  /\ 0 < ret.out /\ ret.out < KeywordUnit


(***************************************************************************)
(* Claims about the combined score (ScoreSpec).                            *)
(***************************************************************************)
\* C21: for every corpus entry and query the combined score lies between
\* -1 and 1 when the semantic score is a cosine between -1 and 1, and
\* between 0 and 1 when the semantic score is 0.
C21_ScoreBound ==
  ret.op = "combined_score" =>
    /\ (0 - One <= ret.sim_score /\ ret.sim_score <= One) =>
         /\ 0 - ScoreUnit * One <= ret.out
         /\ ret.out <= ScoreUnit * One
    /\ ret.sim_score = 0 =>
         /\ 0 <= ret.out
         /\ ret.out <= ScoreUnit * One

\* An entry with semantic score 0 has got a positive combined score from
\* its keywords alone.
C21_Witness ==
  /\ ret.op = "combined_score"
  /\ ret.sim_score = 0
  /\ ret.out > 0

(***************************************************************************)
(* Claims about the store behind the service (ServeSpec).                  *)
(***************************************************************************)
\* The index, the matrix, the metadata and the map of s agree: one entry of
\* each per slot, the same rows in index and matrix, every record numbered
\* by its slot, the map built from the records, deleted set with deleted_at.
Whole(s) ==
  /\ Len(s.faiss_index) = Len(s.metadata)
  /\ Len(s.vectors) = Len(s.metadata)
  /\ s.faiss_index = s.vectors
  /\ \A i \in 1..Len(s.metadata) :
       /\ s.metadata[i].index = i - 1
       /\ s.metadata[i].deleted = s.metadata[i].deleted_at
  /\ s.id_to_index = MapFromMetas(s.metadata, Len(s.metadata))

SlotScore(i) == IP(Normalize(Encode(ret.query)), store.faiss_index[i])

\* The number of slots the recorded call asks the index for.
Window == Min2(2 * ret.top_k, Len(store.faiss_index))

\* Slot i is among the Window highest-scoring slots.
InWindow(i) ==
  Cardinality({j \in 1..Len(store.faiss_index) : SlotScore(j) > SlotScore(i)}) < Window

\* The live slots whose score reaches the threshold of the recorded call.
Qualifying ==
  {i \in 1..Len(store.metadata) :
     ~Deleted(store.metadata[i]) /\ SlotScore(i) >= ret.threshold}

\* The recorded call returned fewer than top_k results although top_k live
\* records reach the threshold.
Gap ==
  /\ ret.op = "search_similar_vectors"
  /\ Len(ret.out.res) < ret.top_k
  /\ Cardinality(Qualifying) >= ret.top_k

\* C27: the engine's vector search returns at most top_k hits, each a live
\* record reaching the threshold whose slot is among the min(2*top_k, total)
\* highest-scoring slots; it returns fewer than top_k hits while top_k live
\* records reach the threshold only when a tombstoned slot reaching the
\* threshold is among those highest-scoring slots.  The witness is the
\* reachable gap the claim speaks of.
C27_OversamplingGap ==
  ret.op = "search_similar_vectors" =>
    /\ ~ret.out.raised
    /\ Len(ret.out.res) <= ret.top_k
    /\ \A n \in 1..Len(ret.out.res) :
         /\ ~Deleted(ret.out.res[n].meta)
         /\ ret.out.res[n].score >= ret.threshold
         /\ ret.out.res[n].score = SlotScore(ret.out.res[n].meta.index + 1)
         /\ InWindow(ret.out.res[n].meta.index + 1)
    /\ Gap => \E i \in 1..Len(store.metadata) :
                /\ Deleted(store.metadata[i])
                /\ SlotScore(i) >= ret.threshold
                /\ InWindow(i)

\* A search has looked at min(2*top_k, total) slots of which more than half
\* are tombstoned, and returned fewer than top_k results although top_k live
\* records reach the threshold.
C27_Witness ==
  /\ Gap
  /\ LET looked == FaissSearch(store.faiss_index, Normalize(Encode(ret.query)),
                               Window, ret.ties)
     IN 2 * Cardinality({p \in 1..Window :
                           Deleted(store.metadata[looked[p].idx + 1])}) > Window

(***************************************************************************)
(* Claims about the operations that add descriptions (CorpusSpec).         *)
(***************************************************************************)
\* The ids of the descriptions of a corpus.
CorpusIds(descriptions) == {descriptions[i].id : i \in 1..Len(descriptions)}

\* The slots of s that hold a live record with this id.
LiveRecords(s, id) ==
  {i \in 1..Len(s.metadata) : s.metadata[i].id = id /\ ~Deleted(s.metadata[i])}

\* C29 (as claimed): when add_image_description returns False the corpus,
\* the mappings and the vector store are as before the call; when it
\* returns True the corpus gained exactly one description, whose id no
\* other description of the corpus has, and in semantic+vector mode the
\* store gained exactly one live record with that id.
C29_FailedAddChangesNothing ==
  [][/\ ret' = Op("add_image_description", "false") =>
          /\ matcher'.descriptions = matcher.descriptions
          /\ matcher'.image_mappings = matcher.image_mappings
          /\ store' = store
     /\ ret' = Op("add_image_description", "true") =>
          /\ Len(matcher'.descriptions) = Len(matcher.descriptions) + 1
          /\ SubSeq(matcher'.descriptions, 1, Len(matcher.descriptions))
               = matcher.descriptions
          /\ matcher'.descriptions[Len(matcher'.descriptions)].id
               \notin CorpusIds(matcher.descriptions)
          /\ Indexing =>
               /\ Len(store'.metadata) = Len(store.metadata) + 1
               /\ SubSeq(store'.metadata, 1, Len(store.metadata)) = store.metadata
               /\ LiveRecords(store', matcher'.descriptions[Len(matcher'.descriptions)].id)
                    = {Len(store'.metadata)}]_vars

\* C30 (as claimed): in semantic+vector mode, after any sequence of
\* add_image_description and batch-descriptions calls, every description of
\* the corpus has a live record with its id in the vector store.
C30_CorpusAndIndexInStep ==
  Indexing =>
    \A i \in 1..Len(matcher.descriptions) :
       LiveRecords(store, matcher.descriptions[i].id) # {}

====
